---------------------------- MODULE Spec2Model ----------------------------
(***************************************************************************)
(* A model of streamlit_app.py: the SQLite-backed document number          *)
(* allocator (next_doc_no), the document store (save_receipt_to_db,        *)
(* load_receipt), the totals calculator (safe_float, compute_totals) and   *)
(* the Streamlit script that wires them to the session state.              *)
(*                                                                         *)
(* Python floats are modelled as fixed-point integers counting 1/FIXED,    *)
(* paired with a NaN flag: [nan |-> BOOLEAN, v |-> Int].  Infinities are   *)
(* not modelled.  A docNo, the string PREFIX-YYYYMMDD-####, is the record  *)
(* of its three parts (the format is injective on them).                   *)
(***************************************************************************)
EXTENDS Integers, Sequences, FiniteSets, TLC

\* ------------------------------------------------------------------ bounds
NumSessions == 2
MaxDay == 2
MaxCounter == 2

\* Line totals are rounded to this many decimals (.round(2)).
Decimals == 2
CENT == 10 ^ Decimals
\* One unit of a modelled float: v counts 1/FIXED, so that the product of two
\* numbers of Decimals decimals is exact.
FIXED == CENT * CENT

Sessions == 1..NumSessions
Days == 1..MaxDay
Prefixes == {"RC", "PO"}
DocTypes == {"RECEIPT", "PO"}

\* Python's None / a missing session_state key is the empty sequence, a
\* present value x is <<x>>.
None == <<>>
Some(x) == <<x>>

VARIABLES
    today,          \* the calendar day datetime.now() reports
    doc_counter,    \* table doc_counter: day -> counter, 0 when the day has no row
    db_writer,      \* the session whose connection holds SQLite's write lock, 0 if none
    receipts,       \* table receipts: the committed header rows
    receipt_items,  \* table receipt_items: the committed item rows, in id order
    session_state,  \* st.session_state of every session
    widgets,        \* the front end of every session: selectbox value, what is drawn
    pc,             \* where each session's script run stands
    frame,          \* the locals of each session's call of next_doc_no
    issued,         \* the docNos next_doc_no has returned so far
    txn,            \* a call of save_receipt_to_db: its arguments, its position
                    \* and its connection's uncommitted view of the two tables
    load_result,    \* what the last call of load_receipt returned
    calc            \* a run of the totals calculator: inputs, line totals, totals

vars == <<today, doc_counter, db_writer, receipts, receipt_items,
          session_state, widgets, pc, frame, issued, txn, load_result, calc>>

storeVars == <<txn, load_result>>

dbVars == <<doc_counter, db_writer, receipts, receipt_items>>

\* --------------------------------------------------------------- floats
Float(n) == [nan |-> FALSE, v |-> n]
NaN == [nan |-> TRUE, v |-> 0]
Zero == Float(0)

FAdd(a, b) == IF a.nan \/ b.nan THEN NaN ELSE Float(a.v + b.v)
FSub(a, b) == IF a.nan \/ b.nan THEN NaN ELSE Float(a.v - b.v)

\* Integer division truncating toward zero, as an exact quotient is rounded
\* in the model's fixed point.
TruncDiv(n, d) == IF n >= 0 THEN n \div d ELSE -((-n) \div d)

FMul(a, b) == IF a.nan \/ b.nan THEN NaN ELSE Float(TruncDiv(a.v * b.v, FIXED))
FDiv100(a) == IF a.nan THEN NaN ELSE Float(TruncDiv(a.v, 100))

\* Max0 with the floor lost: what the code would compute without max(0.0, .).
Max0_NoFloor(x) == IF x.nan THEN Zero ELSE x

\* Python's max(0.0, x): x replaces 0.0 only when x > 0.0, which is false
\* for a NaN.
Max0(x) == IF (~x.nan) /\ x.v > 0 THEN x ELSE Zero

\* Rounding to Decimals decimals, to the nearest multiple of CENT/FIXED, ties
\* to the even one (numpy's round).
RoundCent(n) ==
    LET q == n \div CENT          \* floor
        r == n % CENT             \* 0..CENT-1
        up == (2 * r > CENT) \/ (2 * r = CENT /\ q % 2 = 1)
    IN (IF up THEN q + 1 ELSE q) * CENT
Round2(x) == IF x.nan THEN NaN ELSE Float(RoundCent(x.v))

\* A cell of the edited table as the script receives it: a number, a NaN, a
\* None, or something float() cannot parse.
NumCell(n) == [kind |-> "num", v |-> n]
NanCell == [kind |-> "nan", v |-> 0]
NoneCell == [kind |-> "none", v |-> 0]
TextCell == [kind |-> "text", v |-> 0]

\* safe_float: float(x), and the default when float(x) raises.  float() of a
\* NaN is a NaN and raises nothing; float() of a negative number is that number.
safe_float(x, default) ==
    CASE x.kind = "num" -> Float(x.v)
      [] x.kind = "nan" -> NaN
      [] OTHER -> Float(default)

\* Lines 526-529: both numeric columns through safe_float, then the line
\* total column as the rounded product.
RecomputeRow(r) ==
    LET qty == safe_float(r.qty, 0)
        price == safe_float(r.unit_price, 0)
    IN [name |-> r.name, qty |-> qty, unit |-> r.unit, unit_price |-> price,
        line_total |-> Round2(FMul(qty, price))]
Recompute(edited) == [i \in 1..Len(edited) |-> RecomputeRow(edited[i])]

\* pandas' Series.sum(): NaN entries are skipped (skipna), an empty series
\* sums to 0.
RECURSIVE SumSkipNa(_)
SumSkipNa(col) ==
    IF col = <<>> THEN Zero
    ELSE LET h == Head(col)
         IN IF h.nan THEN SumSkipNa(Tail(col)) ELSE FAdd(h, SumSkipNa(Tail(col)))

compute_totals(items_df, discount, shipping, vat_rate) ==
    LET subtotal == IF items_df # <<>>
                    THEN SumSkipNa([i \in 1..Len(items_df) |-> items_df[i].line_total])
                    ELSE Zero
        d == Max0(discount)
        s == Max0(shipping)
        v == Max0(vat_rate)
        taxable_base == Max0(FAdd(FSub(subtotal, d), s))
        vat_amount == FMul(taxable_base, FDiv100(v))
        total == FAdd(taxable_base, vat_amount)
    IN [subtotal |-> subtotal, discount |-> d, shipping |-> s, vat_rate |-> v,
        vat_amount |-> vat_amount, total |-> total, taxable_base |-> taxable_base]

\* ------------------------------------------------------------- the store
\* str(x) of a text cell: the text, and "None" for a None.
Str(x) == IF x = None THEN "None" ELSE x[1]

\* A REAL column: SQLite stores a NaN as NULL; pandas reads a NULL of a
\* numeric column back as NaN.
Null == [null |-> TRUE, v |-> 0]
Real(x) == IF x.nan THEN Null ELSE [null |-> FALSE, v |-> x.v]
ReadReal(c) == IF c.null THEN NaN ELSE Float(c.v)

\* The row of the INSERT OR REPLACE (lines 113-129).  The text columns other
\* than doc_no and doc_type are passed through unchanged and left out.
HeaderRow(doc_no, doc_type, totals) ==
    [doc_no |-> doc_no, doc_type |-> doc_type,
     subtotal |-> Real(totals.subtotal), discount |-> Real(totals.discount),
     shipping |-> Real(totals.shipping), vat_rate |-> Real(totals.vat_rate),
     vat_amount |-> Real(totals.vat_amount), total |-> Real(totals.total)]

\* The row of the INSERT of one item (lines 133-136).
ItemRow(doc_no, r) ==
    [doc_no |-> doc_no, item_name |-> Str(r.name), qty |-> Real(r.qty),
     unit |-> Str(r.unit), unit_price |-> Real(r.unit_price),
     line_total |-> Real(r.line_total)]

\* INSERT OR REPLACE on the primary key doc_no.
InsertOrReplace(tbl, row) == {r \in tbl : r.doc_no # row.doc_no} \cup {row}
\* DeleteItems with the DELETE left out: a save that only appends.
DeleteItems_None(tbl, doc_no) == tbl

\* DELETE FROM receipt_items WHERE doc_no = ?
DeleteItems(tbl, doc_no) == SelectSeq(tbl, LAMBDA r : r.doc_no # doc_no)
\* The loop of INSERTs, the first k rows of items_df.
RECURSIVE InsertItems(_, _, _, _)
InsertItems(tbl, doc_no, items_df, k) ==
    IF k = 0 THEN tbl
    ELSE Append(InsertItems(tbl, doc_no, items_df, k - 1), ItemRow(doc_no, items_df[k]))

\* What a committed save_receipt_to_db leaves in the two tables.
SavedReceipts(tbl, doc_no, doc_type, totals) ==
    InsertOrReplace(tbl, HeaderRow(doc_no, doc_type, totals))
SavedItems(tbl, doc_no, items_df) ==
    InsertItems(DeleteItems(tbl, doc_no), doc_no, items_df, Len(items_df))

\* load_receipt: the header row as a dict and the item rows of doc_no, or the
\* ValueError when there is no header row.
LoadedHeader(row) ==
    [doc_no |-> row.doc_no, doc_type |-> row.doc_type,
     subtotal |-> ReadReal(row.subtotal), discount |-> ReadReal(row.discount),
     shipping |-> ReadReal(row.shipping), vat_rate |-> ReadReal(row.vat_rate),
     vat_amount |-> ReadReal(row.vat_amount), total |-> ReadReal(row.total)]
LoadedItem(row) ==
    [item_name |-> row.item_name, qty |-> ReadReal(row.qty), unit |-> row.unit,
     unit_price |-> ReadReal(row.unit_price), line_total |-> ReadReal(row.line_total)]
load_receipt(hdrs, itms, doc_no) ==
    LET rec == {r \in hdrs : r.doc_no = doc_no}
        rows == SelectSeq(itms, LAMBDA r : r.doc_no = doc_no)
    IN IF rec = {}
       THEN [ok |-> FALSE, rec |-> None, items |-> None]
       ELSE [ok |-> TRUE,
             rec |-> Some(LoadedHeader(CHOOSE r \in rec : TRUE)),
             items |-> Some([i \in 1..Len(rows) |-> LoadedItem(rows[i])])]

\* ---------------------------------------------------------- next_doc_no
\* The returned f"{prefix}-{today}-{counter:04d}".
DocNo(prefix, day, counter) == [prefix |-> prefix, date |-> day, counter |-> counter]

NoFrame == [site |-> "none", prefix |-> "RC", today |-> 0, row |-> 0, counter |-> 0]

\* Line 85 and the opening of the connection: the call's locals.  site is
\* where the script called from: "render" (line 462) or "new" (line 612).
EnterCall(s, site, prefix) ==
    /\ pc' = [pc EXCEPT ![s] = "select"]
    /\ frame' = [frame EXCEPT ![s] =
                    [site |-> site, prefix |-> prefix, today |-> today,
                     row |-> 0, counter |-> 0]]

\* What the SELECT of line 88 sees: the committed row of the day (0: none).
\* It runs outside any transaction, so it takes no lock that outlives it.
SelectCounter(s) == doc_counter[frame[s].today]

\* NextCounter with the increment of line 94 lost.
NextCounter_NoIncrement(row) == IF row = 0 THEN 1 ELSE row

\* Lines 90-94: the counter to store and return, from the row the SELECT
\* fetched (0: none).
NextCounter(row) == IF row = 0 THEN 1 ELSE row + 1

\* WriteCounter with the WHERE clause lost: the UPDATE hits every day.
WriteCounter_NoWhere(tbl, day, counter) ==
    [d \in DOMAIN tbl |-> IF d = day \/ tbl[d] # 0 THEN counter ELSE tbl[d]]

\* The INSERT of line 92 or the UPDATE ... WHERE date_yyyymmdd = ? of line 95,
\* once committed.
WriteCounter(tbl, day, counter) == [tbl EXCEPT ![day] = counter]

\* Lines 88-89.
AllocSelect(s) ==
    /\ pc[s] = "select"
    /\ doc_counter[frame[s].today] < MaxCounter
    /\ frame' = [frame EXCEPT ![s].row = SelectCounter(s)]
    /\ pc' = [pc EXCEPT ![s] = "write"]
    /\ UNCHANGED <<today, dbVars, session_state, widgets, issued, storeVars, calc>>

\* Lines 90-95: the INSERT or the UPDATE opens the connection's transaction
\* and takes the write lock; another writer waits for it.  The INSERT of a
\* day that has a row by now violates the primary key: the exception leaves
\* the with block, which rolls back, and ends the script run.
AllocWrite(s) ==
    /\ pc[s] = "write"
    /\ db_writer = 0
    /\ IF frame[s].row = 0 /\ doc_counter[frame[s].today] # 0
       THEN /\ pc' = [pc EXCEPT ![s] = "idle"]
            /\ frame' = [frame EXCEPT ![s] = NoFrame]
            /\ UNCHANGED db_writer
       ELSE /\ pc' = [pc EXCEPT ![s] = "commit"]
            /\ frame' = [frame EXCEPT ![s].counter = NextCounter(frame[s].row)]
            /\ db_writer' = s
    /\ UNCHANGED <<today, doc_counter, receipts, receipt_items, session_state,
                   widgets, issued, storeVars, calc>>

\* Lines 96-97 and the assignment of the returned docNo at the call site
\* (line 462 or 612).  After line 462 the run draws the rest of the form.
AllocCommit(s) ==
    /\ pc[s] = "commit"
    /\ db_writer = s
    /\ LET f == frame[s]
           doc_no == DocNo(f.prefix, f.today, f.counter)
       IN /\ doc_counter' = WriteCounter(doc_counter, f.today, f.counter)
          /\ issued' = issued \cup {doc_no}
          /\ session_state' = [session_state EXCEPT ![s].new_doc_no = Some(doc_no)]
    /\ db_writer' = 0
    /\ pc' = [pc EXCEPT ![s] = "idle"]
    /\ frame' = [frame EXCEPT ![s] = NoFrame]
    /\ widgets' = [widgets EXCEPT ![s].drawn = "full",
                                  ![s].message = IF frame[s].site = "new" THEN "new"
                                                 ELSE widgets[s].message]
    /\ UNCHANGED <<today, receipts, receipt_items, storeVars, calc>>

\* The calendar day passes.
Midnight ==
    /\ today < MaxDay
    /\ today' = today + 1
    /\ UNCHANGED <<dbVars, session_state, widgets, pc, frame, issued, storeVars, calc>>

\* ------------------------------------------------------ the Streamlit script
\* The form's inputs a run reads: the edited item table and the three
\* number inputs (min_value=0.0).
UiRow(name, qty, price) ==
    [name |-> name, qty |-> qty, unit |-> Some("pc"), unit_price |-> price]
UiForms ==
    { [edited |-> <<UiRow(Some("A"), NumCell(1 * FIXED), NumCell(1 * FIXED))>>,
       discount |-> Zero, shipping |-> Zero, vat_rate |-> Float(7 * FIXED)] }

\* The docNo strings a user may type into the load box: those of the first day.
LoadInputs == {DocNo(p, 1, c) : p \in Prefixes, c \in 1..MaxCounter}

NoButton == [kind |-> "none", doc |-> DocNo("RC", 0, 0)]
Button(kind) == [kind |-> kind, doc |-> DocNo("RC", 0, 0)]
LoadButton(doc) == [kind |-> "load", doc |-> doc]

\* The selectbox's options, by the doc_type line 453 derives from the label.
Options == <<"RECEIPT", "PO">>
\* Line 451.
DefaultIndex(loaded) ==
    IF loaded = None THEN 0 ELSE IF loaded[1].doc_type = "RECEIPT" THEN 0 ELSE 1
\* Line 454.
Prefix(doc_type) == IF doc_type = "RECEIPT" THEN "RC" ELSE "PO"

\* Whether load_receipt finds doc's header row now.
LoadFinds(doc) == load_receipt(receipts, receipt_items, doc).ok

\* LoadHandler with the else branch clearing what was loaded.
LoadHandler_Clears(ss, doc) ==
    LET r == load_receipt(receipts, receipt_items, doc)
    IN [ss EXCEPT !.loaded_receipt = r.rec, !.loaded_items = r.items]

\* Lines 432-439: the load button.  The exception of load_receipt is caught
\* and only reported.
LoadHandler(ss, doc) ==
    LET r == load_receipt(receipts, receipt_items, doc)
    IN IF r.ok
       THEN [ss EXCEPT !.loaded_receipt = r.rec, !.loaded_items = r.items]
       ELSE ss

\* Lines 458-463 when no allocation is needed: the Doc No field's value.
WorkingDocNo(ss) ==
    IF ss.loaded_receipt # None THEN Some(ss.loaded_receipt[1].doc_no)
    ELSE ss.new_doc_no

\* make_pdf: the bytes, by what they are drawn from.
make_pdf(doc_no, doc_type, totals) ==
    [doc_no |-> doc_no, doc_type |-> doc_type, total |-> totals.total]

\* Lines 596-604: the download button a run draws from the session state its
\* handlers above have left: the data, the file name {doc_no}.pdf by its
\* docNo, and whether it is disabled.
DownloadButton(ss) ==
    [data |-> ss.pdf_bytes, file_name |-> WorkingDocNo(ss),
     disabled |-> ss.pdf_bytes = None]

\* Lines 609-611.
PopForNew(ss) ==
    [ss EXCEPT !.loaded_receipt = None, !.loaded_items = None, !.pdf_bytes = None]

\* NeedsDocNo with the test for the session's new_doc_no lost.
NeedsDocNo_EveryRun(ss) == ss.loaded_receipt = None

\* Line 461: the render allocates when nothing is loaded and the session has
\* no new_doc_no yet.
NeedsDocNo(ss) == ss.loaded_receipt = None /\ ss.new_doc_no = None

\* One run of the script, top to bottom, for the button b clicked (if any),
\* the selectbox value label the front end sends, and the form's inputs.
ScriptRun(s, b, label, form) ==
    LET ss1 == IF b.kind = "load" THEN LoadHandler(session_state[s], b.doc)
               ELSE session_state[s]
        index == DefaultIndex(ss1.loaded_receipt)
        \* a selectbox whose index argument changed is a new widget and shows
        \* its default
        doc_type == IF index # widgets[s].doc_type_index THEN Options[index + 1]
                    ELSE label
        prefix == Prefix(doc_type)
        \* st.success / st.error of this run (lines 437, 439, 572, 593; that
        \* of line 613 comes once next_doc_no has returned)
        message == CASE b.kind = "load" ->
                          IF LoadFinds(b.doc) THEN "load_ok" ELSE "load_error"
                     [] b.kind = "save" -> "saved"
                     [] b.kind = "pdf" -> "pdf"
                     [] OTHER -> "none"
    IN /\ pc[s] = "idle"
       /\ UNCHANGED <<storeVars, calc>>
       /\ IF NeedsDocNo(ss1)
          THEN \* line 462
               /\ EnterCall(s, "render", prefix)
               /\ session_state' = [session_state EXCEPT ![s] = ss1]
               /\ widgets' = [widgets EXCEPT ![s] =
                                 [doc_type_label |-> doc_type,
                                  doc_type_index |-> index, drawn |-> "partial",
                                  message |-> IF b.kind = "load" THEN message ELSE "none"]]
               /\ UNCHANGED <<today, dbVars, issued>>
          ELSE LET doc_no == WorkingDocNo(ss1)[1]
                   df == Recompute(form.edited)
                   totals == compute_totals(df, form.discount, form.shipping,
                                            form.vat_rate)
               IN /\ widgets' = [widgets EXCEPT ![s] =
                                    [doc_type_label |-> doc_type,
                                     doc_type_index |-> index, drawn |-> "full",
                                     message |-> message]]
                  /\ CASE b.kind = "save" ->
                            \* lines 556-572; the transaction waits for the
                            \* write lock
                            /\ db_writer = 0
                            /\ receipts' = SavedReceipts(receipts, doc_no, doc_type, totals)
                            /\ receipt_items' = SavedItems(receipt_items, doc_no, df)
                            /\ session_state' = [session_state EXCEPT ![s] = ss1]
                            /\ UNCHANGED <<today, doc_counter, db_writer, pc, frame, issued>>
                       [] b.kind = "pdf" ->
                            \* lines 575-593
                            /\ session_state' = [session_state EXCEPT ![s] =
                                  [ss1 EXCEPT !.pdf_bytes =
                                      Some(make_pdf(doc_no, doc_type, totals))]]
                            /\ UNCHANGED <<today, dbVars, pc, frame, issued>>
                       [] b.kind = "new" ->
                            \* lines 608-612
                            /\ session_state' = [session_state EXCEPT ![s] = PopForNew(ss1)]
                            /\ EnterCall(s, "new", prefix)
                            /\ UNCHANGED <<today, dbVars, issued>>
                       [] OTHER ->
                            /\ session_state' = [session_state EXCEPT ![s] = ss1]
                            /\ UNCHANGED <<today, dbVars, pc, frame, issued>>

\* A run no button caused: the first one of a session, or a rerun after an
\* edit of the form.
Rerun(s) ==
    \E form \in UiForms : ScriptRun(s, NoButton, widgets[s].doc_type_label, form)

\* The user picks a document type in the selectbox (drawn by every run).
SelectDocType(s, t) ==
    /\ widgets[s].drawn # "none"
    /\ t # widgets[s].doc_type_label
    /\ \E form \in UiForms : ScriptRun(s, NoButton, t, form)

\* The load button is drawn before the Doc No field.
ClickLoad(s, doc) ==
    /\ widgets[s].drawn # "none"
    /\ \E form \in UiForms :
          ScriptRun(s, LoadButton(doc), widgets[s].doc_type_label, form)

\* The three buttons below the form exist once a run has drawn all of it.
ClickSave(s) ==
    /\ widgets[s].drawn = "full"
    /\ \E form \in UiForms :
          ScriptRun(s, Button("save"), widgets[s].doc_type_label, form)
ClickPdf(s) ==
    /\ widgets[s].drawn = "full"
    /\ \E form \in UiForms :
          ScriptRun(s, Button("pdf"), widgets[s].doc_type_label, form)
ClickNew(s) ==
    /\ widgets[s].drawn = "full"
    /\ \E form \in UiForms :
          ScriptRun(s, Button("new"), widgets[s].doc_type_label, form)

\* ------------------------------------------------------- the specification
NoTxn == [step |-> "none", doc_no |-> DocNo("RC", 0, 0), doc_type |-> "RECEIPT",
          items_df |-> <<>>, totals |-> compute_totals(<<>>, Zero, Zero, Zero),
          hdrs |-> {}, itms |-> <<>>, k |-> 0]
NoLoad == [called |-> FALSE, doc_no |-> DocNo("RC", 0, 0), after_commit |-> FALSE,
           res |-> [ok |-> FALSE, rec |-> None, items |-> None]]
NoCalc == [stage |-> "idle", edited |-> <<>>, discount |-> Zero, shipping |-> Zero,
           vat_rate |-> Zero, df |-> <<>>,
           totals |-> compute_totals(<<>>, Zero, Zero, Zero)]

NoSession == [loaded_receipt |-> None, loaded_items |-> None,
              new_doc_no |-> None, pdf_bytes |-> None]

Init ==
    /\ today = 1
    /\ doc_counter = [d \in Days |-> 0]
    /\ db_writer = 0
    /\ receipts = {}
    /\ receipt_items = <<>>
    /\ session_state = [s \in Sessions |-> NoSession]
    /\ widgets = [s \in Sessions |->
                     [doc_type_label |-> "RECEIPT", doc_type_index |-> 0,
                      drawn |-> "none", message |-> "none"]]
    /\ pc = [s \in Sessions |-> "idle"]
    /\ frame = [s \in Sessions |-> NoFrame]
    /\ issued = {}
    /\ txn = NoTxn
    /\ load_result = NoLoad
    /\ calc = NoCalc

\* Concurrent sessions, each in its own script thread with its own
\* connection, doing what reaches next_doc_no: a first render, a change of the
\* document type, the new-document button.
Next ==
    \/ \E s \in Sessions : Rerun(s)
    \/ \E s \in Sessions, t \in DocTypes : SelectDocType(s, t)
    \/ \E s \in Sessions : ClickNew(s)
    \/ \E s \in Sessions : AllocSelect(s)
    \/ \E s \in Sessions : AllocWrite(s)
    \/ \E s \in Sessions : AllocCommit(s)
    \/ Midnight

Spec == Init /\ [][Next]_vars

\* The sessions when no two script runs overlap: a session takes a step only
\* while every other session is idle.  Every session keeps the selectbox's
\* default document type.
Alone(s) == \A t \in Sessions \ {s} : pc[t] = "idle"

SeqNext ==
    \/ \E s \in Sessions : Alone(s) /\ Rerun(s)
    \/ \E s \in Sessions : Alone(s) /\ ClickNew(s)
    \/ \E s \in Sessions : Alone(s) /\ AllocSelect(s)
    \/ \E s \in Sessions : Alone(s) /\ AllocWrite(s)
    \/ \E s \in Sessions : Alone(s) /\ AllocCommit(s)
    \/ Midnight

SeqSpec == Init /\ [][SeqNext]_vars

\* One browser session using the whole form.
FormSession == 1

FormNext ==
    \/ Rerun(FormSession)
    \/ \E t \in DocTypes : SelectDocType(FormSession, t)
    \/ \E doc \in LoadInputs : ClickLoad(FormSession, doc)
    \/ ClickSave(FormSession)
    \/ ClickPdf(FormSession)
    \/ ClickNew(FormSession)
    \/ AllocSelect(FormSession)
    \/ AllocWrite(FormSession)
    \/ AllocCommit(FormSession)

FormSpec == Init /\ [][FormNext]_vars

\* ---------------------------------------------- save_receipt_to_db, by step
\* The documents and the tables the store is called with.
StoreDocs == {DocNo("RC", 1, 1), DocNo("PO", 1, 2)}
RawRow(name, qty, unit, price) ==
    [name |-> name, qty |-> qty, unit |-> unit, unit_price |-> price]
StoreRows ==
    { RawRow(Some("A"), NumCell(3 * (FIXED \div 10)), Some("kg"), NumCell(16 * CENT)),
      RawRow(None, NanCell, None, NumCell(2 * FIXED)) }
MaxItems == 2
RECURSIVE TablesOf(_, _)
TablesOf(rows, n) ==
    IF n = 0 THEN {<<>>}
    ELSE TablesOf(rows, n - 1) \cup
         {Append(t, r) : t \in {u \in TablesOf(rows, n - 1) : Len(u) = n - 1}, r \in rows}
StoreTables == TablesOf(StoreRows, MaxItems)

\* The connection the call runs on, as a holder of the write lock.
StoreConn == 1

\* Lines 111-129: the connection is opened and the INSERT OR REPLACE runs.  It
\* is the first statement that writes, so sqlite3 begins the transaction and
\* the connection takes the write lock; until the commit its changes are its
\* own view (hdrs, itms) of the tables.
SaveBegin(doc_no, doc_type, edited) ==
    LET df == Recompute(edited)
        totals == compute_totals(df, Zero, Zero, Float(7 * FIXED))
    IN /\ txn.step \in {"none", "committed", "failed"}
       /\ db_writer = 0
       /\ db_writer' = StoreConn
       /\ txn' = [step |-> "header", doc_no |-> doc_no, doc_type |-> doc_type,
                  items_df |-> df, totals |-> totals,
                  hdrs |-> SavedReceipts(receipts, doc_no, doc_type, totals),
                  itms |-> receipt_items, k |-> 0]
       /\ load_result' = NoLoad
       /\ UNCHANGED <<today, doc_counter, receipts, receipt_items,
                      session_state, widgets, pc, frame, issued, calc>>

\* Line 131.
SaveDelete ==
    /\ txn.step = "header"
    /\ txn' = [txn EXCEPT !.step = "items", !.itms = DeleteItems(txn.itms, txn.doc_no)]
    /\ UNCHANGED <<today, dbVars, session_state, widgets, pc, frame, issued,
                   load_result, calc>>

\* Lines 132-136: one turn of the loop.
SaveInsert ==
    /\ txn.step = "items"
    /\ txn.k < Len(txn.items_df)
    /\ txn' = [txn EXCEPT !.k = txn.k + 1,
                          !.itms = Append(txn.itms,
                                          ItemRow(txn.doc_no, txn.items_df[txn.k + 1]))]
    /\ UNCHANGED <<today, dbVars, session_state, widgets, pc, frame, issued,
                   load_result, calc>>

\* What the commit of line 137 publishes: the connection's view.
Published(committed, view) == view

\* Line 137.
SaveCommit ==
    /\ txn.step = "items"
    /\ txn.k = Len(txn.items_df)
    /\ receipts' = Published(receipts, txn.hdrs)
    /\ receipt_items' = Published(receipt_items, txn.itms)
    /\ db_writer' = 0
    /\ txn' = [txn EXCEPT !.step = "committed"]
    /\ UNCHANGED <<today, doc_counter, session_state, widgets, pc, frame, issued,
                   load_result, calc>>

\* RolledBack with no rollback: the statements already run stay.
RolledBack_Kept(committed, view) == view

\* What an exception inside the with block leaves in a table: the connection's
\* __exit__ rolls the transaction back.
RolledBack(committed, view) == committed

\* A statement of the call raises (a storage error, a float() of a cell that
\* is no number) after the header upsert, after the DELETE or between two
\* INSERTs.
SaveFail ==
    /\ txn.step \in {"header", "items"}
    /\ receipts' = RolledBack(receipts, txn.hdrs)
    /\ receipt_items' = RolledBack(receipt_items, txn.itms)
    /\ db_writer' = 0
    /\ txn' = [NoTxn EXCEPT !.step = "failed", !.doc_no = txn.doc_no, !.k = txn.k]
    /\ UNCHANGED <<today, doc_counter, session_state, widgets, pc, frame, issued,
                   load_result, calc>>

\* A call of load_receipt for the docNo of the save, on a connection of its
\* own, while the save runs or after it: it reads the committed tables.
Load(doc_no) ==
    /\ txn.step # "none"
    /\ doc_no = txn.doc_no
    /\ load_result' = [called |-> TRUE, doc_no |-> doc_no,
                       after_commit |-> txn.step = "committed",
                       res |-> load_receipt(receipts, receipt_items, doc_no)]
    /\ UNCHANGED <<today, dbVars, session_state, widgets, pc, frame, issued,
                   txn, calc>>

StoreNext ==
    \/ \E d \in StoreDocs, e \in StoreTables :
          SaveBegin(d, IF d.prefix = "RC" THEN "RECEIPT" ELSE "PO", e)
    \/ SaveDelete
    \/ SaveInsert
    \/ SaveCommit
    \/ SaveFail
    \/ \E d \in StoreDocs : Load(d)

StoreSpec == Init /\ [][StoreNext]_vars

\* ------------------------------------------------- the totals calculator
\* The cells, tables and amounts the calculator is run on.
MaxCalcItems == 2
CalcQtys == {NumCell(1 * FIXED), NumCell(3 * (FIXED \div 10)), NumCell(-1 * FIXED),
             NanCell, NoneCell, TextCell}
CalcPrices == {NumCell(5 * (FIXED \div 2)), NumCell(16 * CENT), TextCell}
CalcRows == {RawRow(Some("A"), q, Some("pc"), p) : q \in CalcQtys, p \in CalcPrices}
CalcTables == TablesOf(CalcRows, MaxCalcItems)
CalcDiscounts == {Float(-1 * FIXED), Float(1 * FIXED), Float(5 * FIXED)}
CalcShippings == {Float(-1 * FIXED), Float(1 * FIXED)}
CalcVatRates == {Float(-7 * FIXED), Float(7 * FIXED)}

TotalsInit ==
    /\ today = 1
    /\ doc_counter = [d \in Days |-> 0]
    /\ db_writer = 0
    /\ receipts = {}
    /\ receipt_items = <<>>
    /\ session_state = [s \in Sessions |-> NoSession]
    /\ widgets = [s \in Sessions |->
                     [doc_type_label |-> "RECEIPT", doc_type_index |-> 0,
                      drawn |-> "none", message |-> "none"]]
    /\ pc = [s \in Sessions |-> "idle"]
    /\ frame = [s \in Sessions |-> NoFrame]
    /\ issued = {}
    /\ txn = NoTxn
    /\ load_result = NoLoad
    /\ \E e \in CalcTables, d \in CalcDiscounts, sh \in CalcShippings, v \in CalcVatRates :
          calc = [stage |-> "input", edited |-> e, discount |-> d, shipping |-> sh,
                  vat_rate |-> v, df |-> <<>>,
                  totals |-> compute_totals(<<>>, Zero, Zero, Zero)]

\* Lines 526-529.
RecomputeLines ==
    /\ calc.stage = "input"
    /\ calc' = [calc EXCEPT !.stage = "lines", !.df = Recompute(calc.edited)]
    /\ UNCHANGED <<today, dbVars, session_state, widgets, pc, frame, issued, storeVars>>

\* Line 543.
ComputeTotals ==
    /\ calc.stage = "lines"
    /\ calc' = [calc EXCEPT !.stage = "done",
                            !.totals = compute_totals(calc.df, calc.discount,
                                                      calc.shipping, calc.vat_rate)]
    /\ UNCHANGED <<today, dbVars, session_state, widgets, pc, frame, issued, storeVars>>

TotalsNext == RecomputeLines \/ ComputeTotals

TotalsSpec == TotalsInit /\ [][TotalsNext]_vars

\* =================================================================== claims
\* The step in which session s's call of next_doc_no commits and returns.
Returns(s) == pc[s] = "commit" /\ pc'[s] = "idle"
\* The docNo that call returns.
Returned(s) == DocNo(frame[s].prefix, frame[s].today, frame[s].counter)
\* The largest counter returned so far for a day, 0 when there is none.
MaxIssued(day) ==
    LET cs == {x.counter : x \in {y \in issued : y.date = day}}
    IN IF cs = {} THEN 0 ELSE CHOOSE c \in cs : \A e \in cs : e <= c

\* C1: under any interleaving of concurrent calls of next_doc_no, no call
\* returns a docNo that a call has returned before.
C1_NoDuplicateDocNo ==
    [][\A s \in Sessions : Returns(s) => Returned(s) \notin issued]_vars

\* C2: when calls do not overlap, a call returns the counter 1 greater than
\* the largest returned before for its day (1 for the day's first call), the
\* day's stored counter becomes that value, and no stored counter ever
\* decreases.
C2_SequentialIncrement ==
    [][/\ \A s \in Sessions : Returns(s) =>
             /\ frame[s].counter = MaxIssued(frame[s].today) + 1
             /\ \A x \in issued : x.date = frame[s].today =>
                    x.counter # frame[s].counter
             /\ doc_counter'[frame[s].today] = frame[s].counter
             /\ doc_counter'[frame[s].today] > doc_counter[frame[s].today]
       /\ \A d \in Days : doc_counter'[d] >= doc_counter[d]]_vars

\* C2's case: two calls on one day have returned consecutive counters.
C2_Witness ==
    \E x \in issued, y \in issued : x.date = y.date /\ y.counter = x.counter + 1

\* C3: a call on a day without a row returns counter 1, and a step changes
\* the row of a day only as the return of a call for that day.
C3_NewDayFrame ==
    [][/\ \A s \in Sessions : Returns(s) =>
             /\ doc_counter[frame[s].today] = 0 => frame[s].counter = 1
             /\ \A d \in Days \ {frame[s].today} : doc_counter'[d] = doc_counter[d]
       /\ \A d \in Days : doc_counter'[d] # doc_counter[d] =>
             \E s \in Sessions : Returns(s) /\ frame[s].today = d]_vars

\* C3's case: after allocations on the first day, the second day's first
\* call has returned counter 1 and the first day's row still holds its count.
C3_Witness ==
    /\ doc_counter[1] >= 2
    /\ doc_counter[2] = 1
    /\ \E x \in issued : x.date = 2 /\ x.counter = 1
    /\ \E x \in issued : x.date = 1 /\ x.counter = doc_counter[1]

\* What load_receipt returns for doc_no from the committed tables of a state.
Stored(hdrs, itms, doc_no) == load_receipt(hdrs, itms, doc_no)
\* The complete document a call of save_receipt_to_db is to store, as
\* load_receipt returns it: the header and every item, converted.
NewDocument ==
    [ok |-> TRUE,
     rec |-> Some(LoadedHeader(HeaderRow(txn.doc_no, txn.doc_type, txn.totals))),
     items |-> Some([i \in 1..Len(txn.items_df) |->
                        LoadedItem(ItemRow(txn.doc_no, txn.items_df[i]))])]
\* The step that commits the save.
Commits == txn.step = "items" /\ txn'.step = "committed"

\* C4: every step of save_receipt_to_db, a failure after the header upsert,
\* after the DELETE or between two INSERTs included, leaves what a load of
\* any docNo returns as it was, except the commit, after which the load of
\* the saved docNo returns the complete new header and the complete new items.
C4_SaveAtomic ==
    [][\A d \in StoreDocs :
          \/ Stored(receipts', receipt_items', d) = Stored(receipts, receipt_items, d)
          \/ /\ Commits
             /\ d = txn.doc_no
             /\ Stored(receipts', receipt_items', d) = NewDocument]_vars

\* C4's case: the save of a document that is stored already, with items,
\* failed after its DELETE and one INSERT.
C4_Witness ==
    /\ txn.step = "failed"
    /\ txn.k = 1
    /\ Stored(receipts, receipt_items, txn.doc_no).ok
    /\ Len(Stored(receipts, receipt_items, txn.doc_no).items[1]) = MaxItems

\* A saved text cell and the loaded text are the same value.
SameText(cell, text) == cell = Some(text)
SameItem(saved, loaded) ==
    /\ SameText(saved.name, loaded.item_name)
    /\ saved.qty = loaded.qty
    /\ SameText(saved.unit, loaded.unit)
    /\ saved.unit_price = loaded.unit_price
    /\ saved.line_total = loaded.line_total
\* load_receipt ran right after the commit of the save, on the saved docNo.
LoadedAfterSave ==
    /\ txn.step = "committed"
    /\ load_result.called
    /\ load_result.after_commit
    /\ load_result.doc_no = txn.doc_no

\* C5: a load right after a successful save of the same docNo returns as
\* many items as were saved, each with the saved name, quantity, unit, unit
\* price and line total, and the six totals passed to the save.
C5_SaveLoadRoundTrip ==
    LoadedAfterSave =>
        /\ load_result.res.ok
        /\ LET items == load_result.res.items[1]
               rec == load_result.res.rec[1]
           IN /\ Len(items) = Len(txn.items_df)
              /\ \A i \in 1..Len(items) : SameItem(txn.items_df[i], items[i])
              /\ rec.subtotal = txn.totals.subtotal
              /\ rec.discount = txn.totals.discount
              /\ rec.shipping = txn.totals.shipping
              /\ rec.vat_rate = txn.totals.vat_rate
              /\ rec.vat_amount = txn.totals.vat_amount
              /\ rec.total = txn.totals.total

\* The rows of one docNo in the item table, in id order.
ItemsOf(itms, doc_no) == SelectSeq(itms, LAMBDA r : r.doc_no = doc_no)

\* C6: the commit of a save leaves, for the saved docNo, exactly the rows of
\* the item list just saved (none of an earlier save) and exactly one header
\* row, and leaves the header and item rows of every other docNo as they were.
C6_SaveReplacesItems ==
    [][Commits =>
          /\ ItemsOf(receipt_items', txn.doc_no) =
                [i \in 1..Len(txn.items_df) |-> ItemRow(txn.doc_no, txn.items_df[i])]
          /\ Cardinality({r \in receipts' : r.doc_no = txn.doc_no}) = 1
          /\ \A d \in StoreDocs \ {txn.doc_no} :
                /\ ItemsOf(receipt_items', d) = ItemsOf(receipt_items, d)
                /\ {r \in receipts' : r.doc_no = d} = {r \in receipts : r.doc_no = d}]_vars

\* C6's case: a second save of a docNo has committed a list that differs
\* from the non-empty list a load returned for it while the save was running,
\* and another docNo has rows of its own.
C6_Witness ==
    /\ txn.step = "committed"
    /\ load_result.called
    /\ ~load_result.after_commit
    /\ load_result.doc_no = txn.doc_no
    /\ load_result.res.ok
    /\ Len(load_result.res.items[1]) > 0
    /\ load_result.res.items # Stored(receipts, receipt_items, txn.doc_no).items
    /\ \E d \in StoreDocs \ {txn.doc_no} : Len(ItemsOf(receipt_items, d)) > 0

\* The reference formula of the totals, on the integers the floats count.
RECURSIVE RefSum(_)
RefSum(col) == IF col = <<>> THEN 0 ELSE Head(col).v + RefSum(Tail(col))
RefFloor0(n) == IF n < 0 THEN 0 ELSE n
RefSubtotal == RefSum([i \in 1..Len(calc.df) |-> calc.df[i].line_total])
RefBase ==
    RefFloor0(RefSubtotal - RefFloor0(calc.discount.v) + RefFloor0(calc.shipping.v))
\* (the rates are whole percents, RefPercent of them)
RefPercent == RefFloor0(calc.vat_rate.v) \div FIXED
RefVat == (RefBase * RefPercent) \div 100
\* Every line total of the table is a number.
FiniteLines == \A i \in 1..Len(calc.df) : ~calc.df[i].line_total.nan

\* C8: for an item table of finite line totals and any discount, shipping
\* and vatRate, negative ones included, compute_totals returns the reference
\* values: the three inputs floored to 0, the sum of the line totals, the
\* taxable base max(0, subtotal - discount + shipping), the VAT
\* base * rate / 100 and their sum; the base, the VAT and the total are never
\* negative.
C8_TotalsFormula ==
    (calc.stage = "done" /\ FiniteLines) =>
        /\ calc.totals.discount = Float(RefFloor0(calc.discount.v))
        /\ calc.totals.shipping = Float(RefFloor0(calc.shipping.v))
        /\ calc.totals.vat_rate = Float(RefFloor0(calc.vat_rate.v))
        /\ calc.totals.subtotal = Float(RefSubtotal)
        /\ calc.totals.taxable_base = Float(RefBase)
        /\ calc.totals.vat_amount = Float(RefVat)
        /\ calc.totals.total = Float(RefBase + RefVat)
        /\ calc.totals.taxable_base.v >= 0
        /\ calc.totals.vat_amount.v >= 0
        /\ calc.totals.total.v >= 0

\* C8's case: the totals of a table whose discount exceeds subtotal plus
\* shipping, computed with a negative VAT rate.
C8_Witness ==
    /\ calc.stage = "done"
    /\ FiniteLines
    /\ Len(calc.df) = 2
    /\ calc.discount.v > RefSubtotal + RefFloor0(calc.shipping.v)
    /\ calc.vat_rate.v < 0
    /\ calc.totals.total = Zero

\* A cell the specification has coerced to 0: not a number, or negative.
CoercedToZero(cell) == cell.kind # "num" \/ cell.v < 0

\* C9: a line whose quantity or unit price is unparseable, NaN or negative
\* has line total 0, and the subtotal is never negative.
C9_BadCellsCountZero ==
    /\ calc.stage # "input" =>
          \A i \in 1..Len(calc.edited) :
             (CoercedToZero(calc.edited[i].qty) \/ CoercedToZero(calc.edited[i].unit_price))
                => calc.df[i].line_total = Zero
    /\ calc.stage = "done" => calc.totals.subtotal.v >= 0

\* The working document number of a session: the value of its Doc No field.
Working(s) == WorkingDocNo(session_state[s])
\* The step is a script run of session s that handled a click on the load
\* button for doc.
LoadRun(s, doc) == ClickLoad(s, doc)

\* C7: load_receipt finds no document where no header row was saved under
\* the docNo, and a click on the load button for such a docNo leaves the
\* session's loaded header, loaded items and document number as they were,
\* reporting the error.
C7_LoadNotFound ==
    [][\A s \in Sessions, doc \in LoadInputs :
          (LoadRun(s, doc) /\ \A r \in receipts : r.doc_no # doc) =>
             /\ ~load_receipt(receipts, receipt_items, doc).ok
             /\ session_state'[s] = session_state[s]
             /\ Working(s)' = Working(s)
             /\ widgets'[s].message = "load_error"]_vars

\* C7's case: a load of a docNo without a header row has just failed in a
\* session that holds a loaded document and a document number of its own.
C7_Witness ==
    \E s \in Sessions :
       /\ widgets[s].message = "load_error"
       /\ session_state[s].loaded_receipt # None
       /\ session_state[s].new_doc_no # None
       /\ receipts # {}

\* The step is a successful load of a document into session s.
LoadsDocument(s) ==
    /\ session_state'[s].loaded_receipt # None
    /\ widgets'[s].message = "load_ok"
\* The step belongs to the new-document action of session s: the click
\* (lines 609-612 up to the call) or the return of its call.
NewDocumentStep(s) ==
    \/ pc[s] = "idle" /\ pc'[s] = "select" /\ frame'[s].site = "new"
    \/ Returns(s) /\ frame[s].site = "new"

\* C10 as stated: a counter value is allocated only by a save or by the
\* new-document action, and the working docNo, once assigned, changes only by
\* the new-document action or a load.
C10_AssignedOnSaveOrNew ==
    [][\A s \in Sessions :
          /\ Returns(s) => frame[s].site = "new" \/ widgets[s].message = "saved"
          /\ (Working(s) # None /\ Working(s)' # Working(s)) =>
                NewDocumentStep(s) \/ LoadsDocument(s)]_vars

\* C10 amended: a counter value is allocated only by a render of a session
\* that has no working docNo or by the new-document action, and the working
\* docNo, once assigned, changes only by the new-document action or a load:
\* no rerun, document-type change, PDF generation or save changes it or
\* allocates.
C10_DocNoImmutable ==
    [][\A s \in Sessions :
          /\ Returns(s) =>
                \/ frame[s].site = "new"
                \/ frame[s].site = "render" /\ Working(s) = None
          /\ (Working(s) # None /\ Working(s)' # Working(s)) =>
                NewDocumentStep(s) \/ LoadsDocument(s)]_vars

\* C10's case: a document whose type was changed after its number was
\* assigned has been saved and drawn as a PDF under that number.
C10_Witness ==
    \E s \in Sessions :
       /\ session_state[s].loaded_receipt = None
       /\ session_state[s].new_doc_no # None
       /\ session_state[s].pdf_bytes # None
       /\ session_state[s].pdf_bytes[1].doc_no = session_state[s].new_doc_no[1]
       /\ \E r \in receipts : r.doc_no = session_state[s].new_doc_no[1]
       /\ Prefix(widgets[s].doc_type_label) # session_state[s].new_doc_no[1].prefix
       /\ Cardinality(issued) = 1

\* C11: every header row saved through the form carries a docNo whose prefix
\* is that of its document type: RC with RECEIPT, PO with PO.
C11_PrefixMatchesType ==
    \A r \in receipts : r.doc_no.prefix = Prefix(r.doc_type)

\* The download button on session s's page, once a run has drawn the whole
\* form and returned.
Download(s) == DownloadButton(session_state[s])
Drawn(s) == widgets[s].drawn = "full" /\ pc[s] = "idle"

\* C12: whenever the download button is enabled, the bytes it offers were
\* drawn by make_pdf for the docNo of its file name, the one shown in the form.
C12_PdfOfShownDocument ==
    \A s \in Sessions :
       (Drawn(s) /\ ~Download(s).disabled) =>
          Download(s).data[1].doc_no = Download(s).file_name[1]

============================================================================
